---- MODULE Spec2Model ----
(***************************************************************************)
(* Model of minesweeper.py: the Minesweeper board (ground truth), the      *)
(* Sentence knowledge unit and the MinesweeperAI inference engine and move *)
(* selectors.  Cells are pairs <<row, col>>.  A Sentence is a record       *)
(* [cells, count].  The knowledge base is a Python list, modelled as a     *)
(* sequence of Sentences in list order.                                    *)
(***************************************************************************)
EXTENDS Integers, Sequences, FiniteSets, TLC

\* Bounds of the exploration: mines laid on the board, add_knowledge calls.
MaxMines == 2
MaxCalls == 3
\* Largest count of a Sentence built directly, outside add_knowledge.
MaxCount == 4

\* Board shapes <<height, width>> explored for deduction.  Between them they
\* reach every branch of the neighbour computation: first, last and middle
\* row and column, and boards of a single row or column.
Shapes == {<<1, 1>>, <<1, 2>>, <<2, 1>>, <<1, 3>>, <<3, 1>>, <<2, 2>>, <<3, 3>>}

\* Board shapes explored when the move selectors are called as well, and
\* when two agents run side by side.
PlayShapes == {<<1, 3>>, <<2, 2>>, <<2, 3>>}

\* Board shapes explored when the history of each call is kept.
TraceShapes == {<<1, 3>>, <<2, 2>>, <<2, 3>>, <<3, 3>>}

VARIABLES
    height,      \* Minesweeper.height = MinesweeperAI.height
    width,       \* Minesweeper.width = MinesweeperAI.width
    board,       \* Minesweeper.mines: the set of cells that hold a mine
    moves_made,  \* MinesweeperAI.moves_made
    mines,       \* MinesweeperAI.mines
    safes,       \* MinesweeperAI.safes
    knowledge,   \* MinesweeperAI.knowledge (list of Sentences)
    twin,        \* a second MinesweeperAI, fed the same calls when pc = "twin"
    op,          \* name of the last operation called on the agent
    arg,         \* <<cell, count>> of the last add_knowledge call, <<>> before the first
    ret,         \* value returned by the last move selector: <<>> is None, <<cell>> a cell
    cleaned,     \* knowledge as it stood after cleanup (line 292) in the last add_knowledge
    inserted,    \* history, kept when pc is "trace": <<s>>, s the Sentence the last
                 \* add_knowledge appended (line 265)
    trail,       \* history, kept when pc is "trace": every value a Sentence of
                 \* knowledge took during the last add_knowledge
    before,      \* history, kept when pc is "trace" or "sentence": the agent as it
                 \* stood when the last operation was called
    calls,       \* number of add_knowledge calls so far
    pc           \* position of the driver: "free" and "play" when calls come in any order

vars == <<height, width, board, moves_made, mines, safes, knowledge, twin,
          op, arg, ret, cleaned, inserted, trail, before, calls, pc>>

-----------------------------------------------------------------------------
\* Python's None and a present value.
None == <<>>
Some(x) == <<x>>
IsNone(r) == Len(r) = 0

\* Python evaluates an expression once and binds the value to a name.
ByValue(v, Body(_)) == CHOOSE out \in { Body(x) : x \in {v} } : TRUE

\* Python's strict-subset operator on sets (a < b).
StrictSubset(a, b) == a \subseteq b /\ a # b

-----------------------------------------------------------------------------
\* Minesweeper (board)

\* In-bounds cells of an h x w board.
BoardCells(h, w) == (0 .. h - 1) \X (0 .. w - 1)

\* Minesweeper.nearby_mines
nearby_mines(cell) ==
    Cardinality({ n \in (cell[1] - 1 .. cell[1] + 1) \X (cell[2] - 1 .. cell[2] + 1) :
                    /\ n # cell
                    /\ 0 <= n[1] /\ n[1] < height
                    /\ 0 <= n[2] /\ n[2] < width
                    /\ n \in board })

-----------------------------------------------------------------------------
\* Iteration order of a Python set.  The order in which `for x in s` visits
\* the elements of a set is not fixed by the program; an order is a rotation
\* of the row-major order, forwards or backwards.
Rank(cell) == cell[1] * (width + 1) + cell[2]
RankSize == (height + 1) * (width + 1)
Key(cell, ord) == IF ord.dir = 1
                  THEN (Rank(cell) - ord.start) % RankSize
                  ELSE (ord.start - Rank(cell)) % RankSize

\* The elements of S in the order ord: the i-th is the one with i - 1
\* elements before it.
Iterate(S, ord) ==
    [i \in 1 .. Cardinality(S) |->
        CHOOSE x \in S : Cardinality({ y \in S : Key(y, ord) < Key(x, ord) }) = i - 1]

\* Orders tried for the set loops of add_knowledge.
DeductionOrders == {[start |-> 0, dir |-> 1], [start |-> 0, dir |-> -1]}
\* Orders tried for the set loop of make_safe_move: every forward rotation,
\* so that every element of a set comes last in one of them.
AllOrders == [start : 0 .. RankSize - 1, dir : {1}]

-----------------------------------------------------------------------------
\* Sentence

Sentence(cells, count) == [cells |-> cells, count |-> count]

\* known_mines taking any positive count as a conclusion.
known_mines_positive(s) == IF s.count > 0 THEN Some(s.cells) ELSE None

known_mines(s) == IF Cardinality(s.cells) = s.count THEN Some(s.cells) ELSE None

\* known_safes taking an empty cell set for no conclusion.
known_safes_truthy(s) == IF s.count = 0 /\ s.cells # {} THEN Some(s.cells) ELSE None

known_safes(s) == IF s.count = 0 THEN Some(s.cells) ELSE None

\* Sentence.mark_mine without the decrement of count.
SentenceMarkMineKeepCount(s, cell) ==
    IF {cell} \subseteq s.cells
    THEN [cells |-> s.cells \ {cell}, count |-> s.count]
    ELSE s

SentenceMarkMine(s, cell) ==
    IF {cell} \subseteq s.cells
    THEN [cells |-> s.cells \ {cell}, count |-> s.count - 1]
    ELSE s

\* Sentence.mark_safe decrementing count as mark_mine does.
SentenceMarkSafeDecrement(s, cell) ==
    IF {cell} \subseteq s.cells
    THEN [cells |-> s.cells \ {cell}, count |-> s.count - 1]
    ELSE s

SentenceMarkSafe(s, cell) ==
    IF {cell} \subseteq s.cells
    THEN [cells |-> s.cells \ {cell}, count |-> s.count]
    ELSE s

-----------------------------------------------------------------------------
\* MinesweeperAI.  An agent is a record [moves_made, mines, safes, knowledge]
\* with two history fields: inserted and trail, as the variables of that name.

NewAI == [moves_made |-> {}, mines |-> {}, safes |-> {}, knowledge |-> <<>>,
          inserted |-> None, trail |-> {}]

\* History: the values the sentences of knowledge have at this point.
Observe(self) ==
    [self EXCEPT !.trail = self.trail \cup { self.knowledge[i] : i \in DOMAIN self.knowledge }]

\* mark_mine that updates the sentences and forgets self.mines.
mark_mine_forget(self, cell) ==
    Observe([self EXCEPT !.knowledge = [i \in DOMAIN self.knowledge |->
                                           SentenceMarkMine(self.knowledge[i], cell)]])

mark_mine(self, cell) ==
    Observe([self EXCEPT !.mines = self.mines \cup {cell},
                         !.knowledge = [i \in DOMAIN self.knowledge |->
                                           SentenceMarkMine(self.knowledge[i], cell)]])

\* mark_safe that assigns self.safes instead of adding to it.
mark_safe_replace(self, cell) ==
    Observe([self EXCEPT !.safes = {cell},
                         !.knowledge = [i \in DOMAIN self.knowledge |->
                                           SentenceMarkSafe(self.knowledge[i], cell)]])

mark_safe(self, cell) ==
    Observe([self EXCEPT !.safes = self.safes \cup {cell},
                         !.knowledge = [i \in DOMAIN self.knowledge |->
                                           SentenceMarkSafe(self.knowledge[i], cell)]])

\* add_knowledge, lines 199-252: the neighbour set, branch by branch.
neighbor_cells(cell) ==
    LET r == cell[1]
        c == cell[2]
    IN IF r = 0 THEN
           {<<r + 1, c>>} \cup
           (IF c = 0 THEN {<<r + 1, c + 1>>, <<r, c + 1>>}
            ELSE IF c = width - 1 THEN {<<r + 1, c - 1>>, <<r, c - 1>>}
            ELSE {<<r + 1, c + 1>>, <<r, c + 1>>, <<r + 1, c - 1>>, <<r, c - 1>>})
       ELSE IF r = height - 1 THEN
           {<<r - 1, c>>} \cup
           (IF c = 0 THEN {<<r - 1, c + 1>>, <<r, c + 1>>}
            ELSE IF c = width - 1 THEN {<<r - 1, c - 1>>, <<r, c - 1>>}
            ELSE {<<r - 1, c + 1>>, <<r, c + 1>>, <<r - 1, c - 1>>, <<r, c - 1>>})
       ELSE
           {<<r - 1, c>>, <<r + 1, c>>} \cup
           (IF c = 0 THEN {<<r - 1, c + 1>>, <<r, c + 1>>, <<r + 1, c + 1>>}
            ELSE IF c = width - 1 THEN {<<r - 1, c - 1>>, <<r, c - 1>>, <<r + 1, c - 1>>}
            ELSE {<<r - 1, c + 1>>, <<r, c + 1>>, <<r + 1, c + 1>>,
                  <<r - 1, c - 1>>, <<r, c - 1>>, <<r + 1, c - 1>>})

\* add_knowledge, lines 254-262: the partition of the neighbours.  The tests
\* are strict-subset tests ({cell} < self.mines), as written in the source.
neighbor_mines(self, cell) ==
    { n \in neighbor_cells(cell) : StrictSubset({n}, self.mines) }

unknown_cells(self, cell) ==
    { n \in neighbor_cells(cell) :
        /\ ~ StrictSubset({n}, self.mines)
        /\ ~ StrictSubset({n}, self.safes) }

\* lines 264-265: the new Sentence and its insertion.
NewSentence(self, cell, count) ==
    Sentence(unknown_cells(self, cell), count - Cardinality(neighbor_mines(self, cell)))

\* add_knowledge, steps 1-3 (lines 193-265).  The trail starts afresh.
InsertSentence(self, cell, count) ==
    ByValue(mark_safe([self EXCEPT !.moves_made = self.moves_made \cup {cell},
                                   !.trail = {}], cell),
            LAMBDA a :
                Observe([a EXCEPT !.knowledge = Append(a.knowledge, NewSentence(a, cell, count)),
                                  !.inserted = Some(NewSentence(a, cell, count))]))

\* The loop over known_mines leaving after its first element.
MarkMinesFirst(self, seq) ==
    IF seq = <<>> THEN self ELSE mark_mine(self, Head(seq))

\* lines 272-273: for mine in known_mines: self.mark_mine(mine)
RECURSIVE MarkMines(_, _)
MarkMines(self, seq) ==
    IF seq = <<>> THEN self
    ELSE ByValue(mark_mine(self, Head(seq)), LAMBDA a : MarkMines(a, Tail(seq)))

\* lines 277-278: for safe in known_safes: self.mark_safe(safe)
RECURSIVE MarkSafes(_, _)
MarkSafes(self, seq) ==
    IF seq = <<>> THEN self
    ELSE ByValue(mark_safe(self, Head(seq)), LAMBDA a : MarkSafes(a, Tail(seq)))

\* The step-4 loop body without the known_safes half.
ExtractOneMinesOnly(self, i, ord) ==
    LET km == known_mines(self.knowledge[i])
    IN IF ~ IsNone(km) THEN MarkMines(self, Iterate(km[1], ord)) ELSE self

\* lines 270-278: the body of the step-4 loop for the i-th sentence of the
\* snapshot.  The snapshot is a shallow copy: its i-th element is the i-th
\* Sentence object of self.knowledge, as mutated so far.
ExtractOne(self, i, ord) ==
    LET km == known_mines(self.knowledge[i])
    IN ByValue(IF ~ IsNone(km) THEN MarkMines(self, Iterate(km[1], ord)) ELSE self,
               LAMBDA a :
                   LET ks == known_safes(a.knowledge[i])
                   IN IF ~ IsNone(ks) THEN MarkSafes(a, Iterate(ks[1], ord)) ELSE a)

\* lines 268-278: step 4, one pass over the snapshot.
RECURSIVE ExtractFrom(_, _, _)
ExtractFrom(self, i, ord) ==
    IF i > Len(self.knowledge) THEN self
    ELSE ByValue(ExtractOne(self, i, ord), LAMBDA a : ExtractFrom(a, i + 1, ord))

\* Step 4 over a snapshot taken before the new sentence was appended.
ExtractPassStale(self, ord) ==
    LET old == ExtractFrom([self EXCEPT !.knowledge = SubSeq(self.knowledge, 1, Len(self.knowledge) - 1)], 1, ord)
    IN [old EXCEPT !.knowledge = Append(old.knowledge, self.knowledge[Len(self.knowledge)])]

ExtractPass(self, ord) == ExtractFrom(self, 1, ord)

\* list.remove(x): drops the first element equal to x.
RECURSIVE ListRemove(_, _)
ListRemove(seq, x) ==
    IF seq = <<>> THEN <<>>
    ELSE IF Head(seq) = x THEN Tail(seq)
    ELSE <<Head(seq)>> \o ListRemove(Tail(seq), x)

\* lines 281-284: remove blanks, iterating over a copy.
RECURSIVE RemoveBlanksFrom(_, _, _)
RemoveBlanksFrom(kb, copy, i) ==
    IF i > Len(copy) THEN kb
    ELSE ByValue(IF Cardinality(copy[i].cells) = 0
                 THEN ListRemove(kb, copy[i]) ELSE kb,
                 LAMBDA rest : RemoveBlanksFrom(rest, copy, i + 1))

\* Cleanup that leaves the blanks in.
RemoveBlanksSkip(kb) == kb

RemoveBlanks(kb) == RemoveBlanksFrom(kb, kb, 1)

\* lines 287-292: de-duplicate, keeping first occurrences.
RECURSIVE DedupeFrom(_, _, _)
DedupeFrom(kb, i, res) ==
    IF i > Len(kb) THEN res
    ELSE ByValue(IF \E j \in DOMAIN res : res[j] = kb[i] THEN res
                 ELSE Append(res, kb[i]),
                 LAMBDA r : DedupeFrom(kb, i + 1, r))

Dedupe(kb) == DedupeFrom(kb, 1, <<>>)

\* lines 280-292.
Cleanup(self) ==
    ByValue(RemoveBlanks(self.knowledge),
            LAMBDA kb : [self EXCEPT !.knowledge = Dedupe(kb)])

\* Step 5 keeping the superset's count instead of the difference of counts.
PairDeriveKeepCount(s1, s2) ==
    IF StrictSubset(s1.cells, s2.cells)
    THEN <<Sentence(s2.cells \ s1.cells, s2.count)>>
    ELSE IF StrictSubset(s2.cells, s1.cells)
    THEN <<Sentence(s1.cells \ s2.cells, s1.count)>>
    ELSE <<>>

\* lines 300-310: what one (sentence1, sentence2) pair appends.
PairDerive(s1, s2) ==
    IF StrictSubset(s1.cells, s2.cells)
    THEN <<Sentence(s2.cells \ s1.cells, s2.count - s1.count)>>
    ELSE IF StrictSubset(s2.cells, s1.cells)
    THEN <<Sentence(s1.cells \ s2.cells, s1.count - s2.count)>>
    ELSE <<>>

\* lines 297-310: step 5, the double loop over the snapshot; k counts pairs.
RECURSIVE DeriveFrom(_, _)
DeriveFrom(copy, k) ==
    LET n == Len(copy)
    IN IF k >= n * n THEN <<>>
       ELSE PairDerive(copy[(k \div n) + 1], copy[(k % n) + 1]) \o DeriveFrom(copy, k + 1)

Resolve(self) == [self EXCEPT !.knowledge = self.knowledge \o DeriveFrom(self.knowledge, 0)]

\* add_knowledge up to line 292, and the whole of it.
AddKnowledgeCleaned(self, cell, count, ord) ==
    ByValue(InsertSentence(self, cell, count),
            LAMBDA a : ByValue(ExtractPass(a, ord), LAMBDA b : Cleanup(b)))

add_knowledge(self, cell, count, ord) ==
    ByValue(AddKnowledgeCleaned(self, cell, count, ord), LAMBDA c : Resolve(c))

\* The make_safe_move loop without the test on moves_made.
RECURSIVE SafeScanAny(_, _, _)
SafeScanAny(self, seq, safe_cell) ==
    IF seq = <<>> THEN safe_cell
    ELSE SafeScanAny(self, Tail(seq), Some(Head(seq)))

\* make_safe_move, lines 321-325: the last safe cell visited that is not a
\* move made.  Returns the agent as the call leaves it, and the result.
RECURSIVE SafeScan(_, _, _)
SafeScan(self, seq, safe_cell) ==
    IF seq = <<>> THEN safe_cell
    ELSE ByValue(IF ~ ({Head(seq)} \subseteq self.moves_made)
                 THEN Some(Head(seq)) ELSE safe_cell,
                 LAMBDA found : SafeScan(self, Tail(seq), found))

\* make_safe_move that records the cell it returns as a move made.
make_safe_move_recording(self, ord) ==
    LET r == SafeScan(self, Iterate(self.safes, ord), None)
    IN [self |-> IF IsNone(r) THEN self
                 ELSE [self EXCEPT !.moves_made = self.moves_made \cup {r[1]}],
        result |-> r]

make_safe_move(self, ord) ==
    [self |-> self, result |-> SafeScan(self, Iterate(self.safes, ord), None)]

\* The make_random_move loops keeping the first eligible cell.
RECURSIVE RandomScanFirst(_, _, _)
RandomScanFirst(self, k, random_cell) ==
    IF k >= height * width THEN random_cell
    ELSE LET current_cell == <<k \div width, k % width>>
         IN RandomScanFirst(self, k + 1,
                            IF /\ IsNone(random_cell)
                               /\ ~ ({current_cell} \subseteq self.mines)
                               /\ ~ ({current_cell} \subseteq self.moves_made)
                            THEN Some(current_cell) ELSE random_cell)

\* make_random_move, lines 334-342: rows then columns, the last eligible cell.
RECURSIVE RandomScan(_, _, _)
RandomScan(self, k, random_cell) ==
    IF k >= height * width THEN random_cell
    ELSE LET current_cell == <<k \div width, k % width>>
         IN RandomScan(self, k + 1,
                       IF /\ ~ ({current_cell} \subseteq self.mines)
                          /\ ~ ({current_cell} \subseteq self.moves_made)
                       THEN Some(current_cell) ELSE random_cell)

make_random_move(self) ==
    [self |-> self, result |-> RandomScan(self, 0, None)]

-----------------------------------------------------------------------------
\* The state machine.

Self == [moves_made |-> moves_made, mines |-> mines, safes |-> safes,
         knowledge |-> knowledge, inserted |-> inserted, trail |-> trail]

SetSelf(a) ==
    /\ moves_made' = a.moves_made
    /\ mines' = a.mines
    /\ safes' = a.safes
    /\ knowledge' = a.knowledge

\* The history of a call that left the agent as a.
History(a) ==
    IF pc = "trace"
    THEN /\ inserted' = a.inserted
         /\ trail' = a.trail
         /\ before' = Self
    ELSE UNCHANGED <<inserted, trail, before>>

\* Minesweeper.__init__ and MinesweeperAI.__init__.
InitAgent ==
    /\ moves_made = {}
    /\ mines = {}
    /\ safes = {}
    /\ knowledge = <<>>
    /\ twin = NewAI
    /\ op = "init"
    /\ arg = <<>>
    /\ ret = None
    /\ cleaned = <<>>
    /\ inserted = None
    /\ trail = {}
    /\ before = NewAI
    /\ calls = 0

InitBoard(shapes) ==
    /\ \E s \in shapes : height = s[1] /\ width = s[2]
    /\ board \in { b \in SUBSET BoardCells(height, width) : Cardinality(b) <= MaxMines }

Init ==
    /\ InitBoard(Shapes)
    /\ InitAgent
    /\ pc = "free"

PlayInit ==
    /\ InitBoard(PlayShapes)
    /\ InitAgent
    /\ pc = "play"

\* One add_knowledge call on the agent, its set loops run in any order.
CallAddKnowledge(cell, count) ==
    /\ \E ord \in DeductionOrders :
           \E c \in {AddKnowledgeCleaned(Self, cell, count, ord)} :
               /\ \E r \in {Resolve(c)} : SetSelf(r) /\ History(r)
               /\ cleaned' = c.knowledge
    /\ op' = "add_knowledge"
    /\ arg' = <<cell, count>>
    /\ ret' = None
    /\ calls' = calls + 1

\* The driver reveals a cell that is not a mine and reports the board's count.
AddKnowledge ==
    /\ pc \in {"free", "play", "trace"}
    /\ calls < MaxCalls
    /\ \E cell \in BoardCells(height, width) \ board :
           CallAddKnowledge(cell, nearby_mines(cell))
    /\ UNCHANGED <<height, width, board, twin, pc>>

\* The same call made on two agents, the second running its set loops in
\* a different order from the first.
TwinAddKnowledge ==
    /\ pc = "twin"
    /\ calls < MaxCalls
    /\ \E cell \in BoardCells(height, width) \ board :
           \E o1 \in DeductionOrders : \E o2 \in DeductionOrders \ {o1} :
               \E c \in {AddKnowledgeCleaned(Self, cell, nearby_mines(cell), o1)} :
                   /\ \E r \in {Resolve(c)} : SetSelf(r)
                   /\ cleaned' = c.knowledge
                   /\ twin' = add_knowledge(twin, cell, nearby_mines(cell), o2)
                   /\ arg' = <<cell, nearby_mines(cell)>>
    /\ op' = "add_knowledge"
    /\ ret' = None
    /\ calls' = calls + 1
    /\ UNCHANGED <<height, width, board, inserted, trail, before, pc>>

MakeSafeMove ==
    /\ pc = "play"
    /\ \E ord \in AllOrders :
           \E r \in {make_safe_move(Self, ord)} :
              /\ SetSelf(r.self)
              /\ ret' = r.result
    /\ op' = "make_safe_move"
    /\ UNCHANGED <<height, width, board, twin, arg, cleaned, inserted, trail, before,
                   calls, pc>>

MakeRandomMove ==
    /\ pc = "play"
    /\ \E r \in {make_random_move(Self)} :
          /\ SetSelf(r.self)
          /\ ret' = r.result
    /\ op' = "make_random_move"
    /\ UNCHANGED <<height, width, board, twin, arg, cleaned, inserted, trail, before,
                   calls, pc>>

\* Deduction alone: add_knowledge calls in any order, with truthful counts.
Next == AddKnowledge

Spec == Init /\ [][Next]_vars

\* Deduction and move selection, in any order.
PlayNext == AddKnowledge \/ MakeSafeMove \/ MakeRandomMove

PlaySpec == PlayInit /\ [][PlayNext]_vars

\* Two agents fed the same calls.
TwinInit ==
    /\ InitBoard(PlayShapes)
    /\ InitAgent
    /\ pc = "twin"

TwinNext == TwinAddKnowledge

TwinSpec == TwinInit /\ [][TwinNext]_vars

\* A Sentence built directly from any cells of a 2 x 2 board and any count,
\* held as the one element of knowledge, and the four Sentence methods called
\* on it in any order.
SentenceInit ==
    /\ height = 2
    /\ width = 2
    /\ board = {}
    /\ moves_made = {}
    /\ mines = {}
    /\ safes = {}
    /\ \E cells \in SUBSET BoardCells(2, 2) : \E count \in 0 .. MaxCount :
           knowledge = <<Sentence(cells, count)>>
    /\ twin = NewAI
    /\ op = "init"
    /\ arg = <<>>
    /\ ret = None
    /\ cleaned = <<>>
    /\ inserted = None
    /\ trail = {}
    /\ before = NewAI
    /\ calls = 0
    /\ pc = "sentence"

SentenceKnownMines ==
    /\ pc = "sentence"
    /\ ret' = known_mines(knowledge[1])
    /\ op' = "known_mines"
    /\ before' = Self
    /\ UNCHANGED <<height, width, board, moves_made, mines, safes, knowledge, twin,
                   arg, cleaned, inserted, trail, calls, pc>>

SentenceKnownSafes ==
    /\ pc = "sentence"
    /\ ret' = known_safes(knowledge[1])
    /\ op' = "known_safes"
    /\ before' = Self
    /\ UNCHANGED <<height, width, board, moves_made, mines, safes, knowledge, twin,
                   arg, cleaned, inserted, trail, calls, pc>>

SentenceCallMarkMine ==
    /\ pc = "sentence"
    /\ \E cell \in BoardCells(height, width) :
           /\ knowledge' = <<SentenceMarkMine(knowledge[1], cell)>>
           /\ arg' = <<cell>>
    /\ op' = "Sentence.mark_mine"
    /\ ret' = None
    /\ before' = Self
    /\ UNCHANGED <<height, width, board, moves_made, mines, safes, twin,
                   cleaned, inserted, trail, calls, pc>>

SentenceCallMarkSafe ==
    /\ pc = "sentence"
    /\ \E cell \in BoardCells(height, width) :
           /\ knowledge' = <<SentenceMarkSafe(knowledge[1], cell)>>
           /\ arg' = <<cell>>
    /\ op' = "Sentence.mark_safe"
    /\ ret' = None
    /\ before' = Self
    /\ UNCHANGED <<height, width, board, moves_made, mines, safes, twin,
                   cleaned, inserted, trail, calls, pc>>

SentenceNext ==
    \/ SentenceKnownMines
    \/ SentenceKnownSafes
    \/ SentenceCallMarkMine
    \/ SentenceCallMarkSafe

SentenceSpec == SentenceInit /\ [][SentenceNext]_vars

\* Deduction with the history of each call kept.
TraceInit ==
    /\ InitBoard(TraceShapes)
    /\ InitAgent
    /\ pc = "trace"

TraceNext == AddKnowledge

TraceSpec == TraceInit /\ [][TraceNext]_vars

\* The end-to-end run on the 3 x 3 board whose only mine is (2,2): reveal
\* (0,0), then (0,1), (1,0), (1,1) in any order, then whatever make_safe_move
\* returns while it returns a cell.
EndInit ==
    /\ height = 3
    /\ width = 3
    /\ board = {<<2, 2>>}
    /\ InitAgent
    /\ pc = "first"

EndFirst ==
    /\ pc = "first"
    /\ CallAddKnowledge(<<0, 0>>, nearby_mines(<<0, 0>>))
    /\ pc' = "three"
    /\ UNCHANGED <<height, width, board, twin>>

EndThree ==
    /\ pc = "three"
    /\ \E cell \in {<<0, 1>>, <<1, 0>>, <<1, 1>>} \ moves_made :
           /\ CallAddKnowledge(cell, nearby_mines(cell))
           /\ pc' = IF {<<0, 1>>, <<1, 0>>, <<1, 1>>} \subseteq moves_made \cup {cell}
                    THEN "loop" ELSE "three"
    /\ UNCHANGED <<height, width, board, twin>>

EndAsk ==
    /\ pc = "loop"
    /\ \E ord \in AllOrders :
           \E r \in {make_safe_move(Self, ord)} :
              /\ SetSelf(r.self)
              /\ ret' = r.result
              /\ pc' = IF IsNone(r.result) THEN "done" ELSE "reveal"
    /\ op' = "make_safe_move"
    /\ UNCHANGED <<height, width, board, twin, arg, cleaned, inserted, trail, before,
                   calls>>

EndReveal ==
    /\ pc = "reveal"
    /\ CallAddKnowledge(ret[1], nearby_mines(ret[1]))
    /\ pc' = "loop"
    /\ UNCHANGED <<height, width, board, twin>>

EndNext == EndFirst \/ EndThree \/ EndAsk \/ EndReveal

\* The driver is a loop that runs until make_safe_move returns None.
EndSpec == EndInit /\ [][EndNext]_vars /\ WF_vars(EndNext)

-----------------------------------------------------------------------------
\* Properties.

\* In-bounds cells at Chebyshev distance 1 from cell.
Adjacent(cell) ==
    { n \in BoardCells(height, width) :
        /\ n # cell
        /\ n[1] - cell[1] \in -1 .. 1
        /\ n[2] - cell[2] \in -1 .. 1 }

\* C1: soundness of deduction.  After any sequence of add_knowledge calls on
\* non-mine cells with the board's true counts, every cell of mines is a mine
\* of the board and no cell of safes is a mine of the board.
C1_Soundness ==
    /\ mines \subseteq board
    /\ safes \cap board = {}

\* A mine and a safe cell were both deduced, neither of them revealed.
C1_Witness ==
    /\ calls >= 2
    /\ mines # {}
    /\ safes \ moves_made # {}

\* C2: in every state reached by truthful add_knowledge calls, safes and
\* mines are disjoint and no move made is in mines.
C2_Disjoint ==
    /\ safes \cap mines = {}
    /\ moves_made \cap mines = {}

C2_Witness ==
    /\ Cardinality(mines) >= 2
    /\ Cardinality(moves_made) >= 2
    /\ Cardinality(safes) > Cardinality(moves_made)

\* C3: when add_knowledge(cell, 0) returns, the count 0 being the true one,
\* every in-bounds neighbour of cell is in safes.
C3_ZeroClue ==
    (op = "add_knowledge" /\ arg[2] = 0) => Adjacent(arg[1]) \subseteq safes

\* The 3 x 3 board whose only mine is (2,2), after revealing (0,0).
C3_Witness ==
    /\ height = 3 /\ width = 3 /\ board = {<<2, 2>>}
    /\ op = "add_knowledge"
    /\ arg = <<(<<0, 0>>), 0>>
    /\ calls = 1
    /\ {<<0, 1>>, <<1, 0>>, <<1, 1>>} \subseteq safes

\* C4: on the 3 x 3 board whose only mine is (2,2), every run that reveals
\* (0,0), then (0,1), (1,0), (1,1) in any order, then the cell make_safe_move
\* returns while it returns one, eventually has (2,2) in mines, and (2,2) is
\* never passed to add_knowledge.
C4_EndToEnd ==
    /\ <>(<<2, 2>> \in mines)
    /\ [](arg = <<>> \/ arg[1] # <<2, 2>>)

\* The run has ended with (2,2) deduced and every other cell revealed.
C4_Witness ==
    /\ pc = "done"
    /\ <<2, 2>> \in mines
    /\ <<2, 2>> \notin moves_made
    /\ Cardinality(moves_made) = 8

\* The sentence step 5 derives from a subset a and a superset b.
Difference(a, b) == [cells |-> b.cells \ a.cells, count |-> b.count - a.count]

\* C5: subset resolution.  When add_knowledge returns, for every two
\* sentences a, b left after cleanup with a.cells a strict subset of b.cells
\* the knowledge base holds (b.cells - a.cells, b.count - a.count), and every
\* sentence of the knowledge base was left after cleanup or is such a
\* difference; ({1,2},1) and ({1,2,3,4},1) give ({3,4},0), known safe {3,4}.
C5_SubsetResolution ==
    /\ calls > 0 =>
        /\ \A i, j \in DOMAIN cleaned :
               (cleaned[i].cells \subseteq cleaned[j].cells /\ cleaned[i].cells # cleaned[j].cells)
               => \E k \in DOMAIN knowledge : knowledge[k] = Difference(cleaned[i], cleaned[j])
        /\ \A k \in DOMAIN knowledge :
               \/ \E i \in DOMAIN cleaned : knowledge[k] = cleaned[i]
               \/ \E i, j \in DOMAIN cleaned :
                      /\ cleaned[i].cells \subseteq cleaned[j].cells
                      /\ cleaned[i].cells # cleaned[j].cells
                      /\ knowledge[k] = Difference(cleaned[i], cleaned[j])
    /\ PairDerive([cells |-> {1, 2}, count |-> 1], [cells |-> {1, 2, 3, 4}, count |-> 1])
           = <<[cells |-> {3, 4}, count |-> 0]>>
    /\ PairDerive([cells |-> {1, 2, 3, 4}, count |-> 1], [cells |-> {1, 2}, count |-> 1])
           = <<[cells |-> {3, 4}, count |-> 0]>>
    /\ known_safes([cells |-> {3, 4}, count |-> 0]) = <<{3, 4}>>

\* A call left a sentence and a strict superset of it after cleanup, the
\* difference of their counts not being the superset's count.
C5_Witness ==
    /\ calls > 0
    /\ \E i, j \in DOMAIN cleaned :
           /\ cleaned[i].cells \subseteq cleaned[j].cells
           /\ cleaned[i].cells # cleaned[j].cells
           /\ cleaned[i].count > 0
           /\ \E k \in DOMAIN knowledge : knowledge[k] = Difference(cleaned[i], cleaned[j])

\* C6: make_safe_move returns a cell of safes that is not in moves_made, and
\* returns None exactly when safes \ moves_made is empty.
C6_SafeMove ==
    op = "make_safe_move" =>
        /\ IsNone(ret) <=> (safes \ moves_made = {})
        /\ ~ IsNone(ret) => ret[1] \in safes \ moves_made

\* make_safe_move returned one of several candidates, some safe cell being
\* a move made already.
C6_Witness ==
    /\ op = "make_safe_move"
    /\ ~ IsNone(ret)
    /\ Cardinality(safes \ moves_made) >= 2
    /\ safes \cap moves_made # {}

\* Cells make_random_move may choose.
Eligible == { c \in BoardCells(height, width) : c \notin mines /\ c \notin moves_made }

\* Row, then column.
LexLeq(a, b) == a[1] < b[1] \/ (a[1] = b[1] /\ a[2] <= b[2])

C8_ReadOnly ==
    [][op' \in {"make_safe_move", "make_random_move"}
          => UNCHANGED <<mines, safes, moves_made, knowledge>>]_vars

\* A move selector returned a cell while sentences were held.
C8_Witness ==
    /\ op \in {"make_safe_move", "make_random_move"}
    /\ ~ IsNone(ret)
    /\ knowledge # <<>>
    /\ mines # {}

\* C9: monotonicity.  Across add_knowledge calls safes, mines and moves_made
\* never lose a cell, and a call on a cell not yet revealed grows moves_made
\* by exactly that cell.
C9_Monotonic ==
    [][/\ safes \subseteq safes'
       /\ mines \subseteq mines'
       /\ moves_made \subseteq moves_made'
       /\ (calls' = calls + 1 /\ arg'[1] \notin moves_made)
             => moves_made' = moves_made \cup {arg'[1]}]_vars

\* Three calls on three different cells, with mines and safes deduced.
C9_Witness ==
    /\ calls = 3
    /\ Cardinality(moves_made) = 3
    /\ mines # {}
    /\ Cardinality(safes) > 3

\* C10: determinism of deduction.  Two agents fed the same (cell, count)
\* pairs hold the same safes and mines, whatever the order their set loops
\* run in.
C10_Deterministic ==
    /\ twin.safes = safes
    /\ twin.mines = mines

\* Both agents marked several mines and several safes found in one sentence.
C10_Witness ==
    /\ pc = "twin"
    /\ calls >= 2
    /\ Cardinality(mines) >= 2
    /\ Cardinality(safes \ moves_made) >= 2
    /\ twin.mines = mines

\* C11: known_mines returns a conclusion, the whole cell set, exactly when
\* count equals the number of cells, and known_safes exactly when count is 0;
\* no conclusion (None) differs from the empty set, and a Sentence with no
\* cells and count 0 yields the empty set as a conclusion.
C11_Conclusions ==
    LET s == knowledge[1]
    IN /\ op = "known_mines" =>
              /\ ~ IsNone(ret) <=> (s.count = Cardinality(s.cells))
              /\ ~ IsNone(ret) => ret[1] = s.cells
       /\ op = "known_safes" =>
              /\ ~ IsNone(ret) <=> (s.count = 0)
              /\ ~ IsNone(ret) => ret[1] = s.cells
       /\ (op \in {"known_mines", "known_safes"} /\ s.cells = {} /\ s.count = 0)
              => (ret = Some({}) /\ ret # None)

\* known_safes was called on a Sentence with no cells and count 0.
C11_Witness ==
    /\ pc = "sentence"
    /\ op = "known_safes"
    /\ before.knowledge[1].cells = {}
    /\ before.knowledge[1].count = 0
    /\ ret = Some({})

\* C12: Sentence.mark_mine(cell) removes cell and decrements count by one
\* when cell is in the Sentence, Sentence.mark_safe(cell) removes cell and
\* leaves count as it was; on a cell that is not in the Sentence both leave
\* it unchanged, so the same mark applied twice gives what it gives once.
C12_SentenceMarks ==
    (pc = "sentence" /\ op \in {"Sentence.mark_mine", "Sentence.mark_safe"}) =>
        LET s == before.knowledge[1]
            t == knowledge[1]
            cell == arg[1]
        IN /\ (cell \in s.cells /\ op = "Sentence.mark_mine")
                  => (t.cells = s.cells \ {cell} /\ t.count = s.count - 1)
           /\ (cell \in s.cells /\ op = "Sentence.mark_safe")
                  => (t.cells = s.cells \ {cell} /\ t.count = s.count)
           /\ cell \notin s.cells => t = s
           /\ SentenceMarkMine(t, cell) = t
           /\ SentenceMarkSafe(t, cell) = t

\* A cell of the Sentence was marked safe, the count being positive.
C12_Witness ==
    /\ pc = "sentence"
    /\ op = "Sentence.mark_safe"
    /\ arg[1] \in before.knowledge[1].cells
    /\ arg[1] \notin knowledge[1].cells
    /\ knowledge[1].count > 0
    /\ knowledge[1].count = before.knowledge[1].count

\* C13: the Sentence add_knowledge(cell, count) inserts holds exactly the
\* neighbours of cell that are in neither safes nor mines once cell is marked
\* safe, and its count is count less the number of neighbours in mines,
\* whatever the sizes of safes and mines.
C13_NewSentence ==
    (pc = "trace" /\ calls > 0) =>
        LET cell == arg[1]
            count == arg[2]
            s == inserted[1]
        IN /\ s.cells = neighbor_cells(cell) \ (before.safes \cup {cell} \cup before.mines)
           /\ s.count = count - Cardinality(neighbor_cells(cell) \cap before.mines)

\* C14: on every board of at least one row and one column and for every
\* in-bounds cell, the neighbour set add_knowledge computes is exactly the
\* in-bounds cells at Chebyshev distance 1, the cells nearby_mines counts
\* over: never the cell itself, never a cell outside the board.
C14_Neighbours ==
    (pc = "trace" /\ calls > 0) =>
        /\ neighbor_cells(arg[1]) = Adjacent(arg[1])
        /\ inserted[1].cells \subseteq BoardCells(height, width) \ {arg[1]}

\* C15: whenever add_knowledge returns, no Sentence of the knowledge base
\* holds a cell that is in safes or in mines.
C15_NoResolvedCell ==
    \A i \in DOMAIN knowledge : knowledge[i].cells \cap (safes \cup mines) = {}

\* C16: whenever add_knowledge returns, the knowledge base holds no two
\* Sentences with equal cell sets and equal counts.
C16_NoDuplicate ==
    \A i, j \in DOMAIN knowledge : knowledge[i] = knowledge[j] => i = j

\* C17: whenever add_knowledge returns, no Sentence of the knowledge base
\* has an empty cell set, whether emptied by marking or derived.
C17_NoBlank ==
    \A i \in DOMAIN knowledge : knowledge[i].cells # {}

\* A call emptied a Sentence by its marks and derived Sentences afterwards.
C17_Witness ==
    /\ pc = "trace"
    /\ \E s \in trail : s.cells = {}
    /\ Len(knowledge) > Len(cleaned)

\* C18: with truthful clues on a fixed board, every Sentence has
\* 0 <= count <= number of cells at all times: between the individual marks
\* of the extraction pass, and for the derived Sentences too.
C18_CountRange ==
    \A s \in trail \cup { knowledge[i] : i \in DOMAIN knowledge } :
        0 <= s.count /\ s.count <= Cardinality(s.cells)

\* One pass marked two mines one after the other, some Sentence being seen
\* between the two marks, and the call derived Sentences afterwards.
C18_Witness ==
    /\ pc = "trace"
    /\ \E m1, m2 \in mines \ before.mines :
           /\ m1 # m2
           /\ \E s \in trail : m1 \notin s.cells /\ m2 \in s.cells /\ s.count > 0
    /\ Len(knowledge) > Len(cleaned)

\* C19: if the knowledge base holds a Sentence with count 0 (with count
\* equal to its number of cells) when an add_knowledge call returns, then
\* when the next truthful add_knowledge call returns every cell that
\* Sentence held is in safes (in mines).
C19_NextCall ==
    (pc = "trace" /\ calls > 0) =>
        \A i \in DOMAIN before.knowledge :
            LET s == before.knowledge[i]
            IN /\ s.count = 0 => s.cells \subseteq safes
               /\ s.count = Cardinality(s.cells) => s.cells \subseteq mines

\* The call began with a Sentence left by the call before, its count equal
\* to its number of cells, and marked as mines cells of it that were not yet.
C19_Witness ==
    /\ pc = "trace"
    /\ calls >= 2
    /\ \E i \in DOMAIN before.knowledge :
           /\ before.knowledge[i].cells # {}
           /\ before.knowledge[i].count = Cardinality(before.knowledge[i].cells)
           /\ ~ (before.knowledge[i].cells \subseteq before.mines)
           /\ before.knowledge[i].cells \subseteq mines

====
